---- MODULE Spec2Model ----
(***************************************************************************)
(* A model of libusbcc (src/libusbcc/libusbcc.{h,cc}): the C++ ownership   *)
(* layer over libusb.  The transport (libusb) is the environment: every    *)
(* call the layer makes to it is recorded, in order, in `calls`, and the   *)
(* transport's answers are chosen nondeterministically by the actions.     *)
(***************************************************************************)
EXTENDS Integers, Sequences, FiniteSets, TLC

(***************************************************************************)
(* Bounds of the model.                                                    *)
(***************************************************************************)
\* Number of distinct raw libusb_device* values the transport hands out.
MaxDevices == 2
\* Number of DeviceDescriptor objects that can be alive at the same time.
MaxObjects == 2
\* Number of Device objects that can be alive at the same time.
MaxOpenDevices == 2
\* Number of successful libusb_open calls, each yielding a fresh handle.
MaxSessions == 2
\* is_error is exercised on every status in -StatusSpan .. StatusSpan.
StatusSpan == 101
\* Number of Bus objects that can be alive at the same time.
MaxBuses == 2
\* Number of distinct libusb_context* values libusb_init hands out.
MaxContexts == 2

(***************************************************************************)
(* enum libusb_error, as named by the switch of is_error.                  *)
(***************************************************************************)
LIBUSB_SUCCESS == 0
LIBUSB_ERROR_IO == -1
LIBUSB_ERROR_INVALID_PARAM == -2
LIBUSB_ERROR_ACCESS == -3
LIBUSB_ERROR_NO_DEVICE == -4
LIBUSB_ERROR_NOT_FOUND == -5
LIBUSB_ERROR_BUSY == -6
LIBUSB_ERROR_TIMEOUT == -7
LIBUSB_ERROR_OVERFLOW == -8
LIBUSB_ERROR_PIPE == -9
LIBUSB_ERROR_INTERRUPTED == -10
LIBUSB_ERROR_NO_MEM == -11
LIBUSB_ERROR_NOT_SUPPORTED == -12
LIBUSB_ERROR_OTHER == -99

\* Size of the staging vector of Device::receive.
ReceiveBufferSize == 64

Devices == 1 .. MaxDevices
ObjectIds == 1 .. MaxObjects
DeviceIds == 1 .. MaxOpenDevices
BusIds == 1 .. MaxBuses
Contexts == 1 .. MaxContexts
Sessions == 1 .. MaxSessions
StatusRange == (0 - StatusSpan) .. StatusSpan

\* char buffer[256] of Device::get_usb_string.
StringBufferSize == 256

\* The null pointer, for libusb_device* and libusb_device_handle* alike.
nullptr == 0

(***************************************************************************)
(* bool is_error (int status)                                              *)
(***************************************************************************)
\* is_error without its case LIBUSB_ERROR_OTHER.
is_error_missing_case(status) ==
    CASE status = LIBUSB_SUCCESS -> FALSE
      [] status \in { LIBUSB_ERROR_IO, LIBUSB_ERROR_INVALID_PARAM,
                      LIBUSB_ERROR_ACCESS, LIBUSB_ERROR_NO_DEVICE,
                      LIBUSB_ERROR_NOT_FOUND, LIBUSB_ERROR_BUSY,
                      LIBUSB_ERROR_TIMEOUT, LIBUSB_ERROR_OVERFLOW,
                      LIBUSB_ERROR_PIPE, LIBUSB_ERROR_INTERRUPTED,
                      LIBUSB_ERROR_NO_MEM, LIBUSB_ERROR_NOT_SUPPORTED } -> TRUE
      [] OTHER -> FALSE

\* The switch of is_error, case by case.
is_error(status) ==
    CASE status = LIBUSB_SUCCESS -> FALSE
      [] status = LIBUSB_ERROR_IO -> TRUE
      [] status = LIBUSB_ERROR_INVALID_PARAM -> TRUE
      [] status = LIBUSB_ERROR_ACCESS -> TRUE
      [] status = LIBUSB_ERROR_NO_DEVICE -> TRUE
      [] status = LIBUSB_ERROR_NOT_FOUND -> TRUE
      [] status = LIBUSB_ERROR_BUSY -> TRUE
      [] status = LIBUSB_ERROR_TIMEOUT -> TRUE
      [] status = LIBUSB_ERROR_OVERFLOW -> TRUE
      [] status = LIBUSB_ERROR_PIPE -> TRUE
      [] status = LIBUSB_ERROR_INTERRUPTED -> TRUE
      [] status = LIBUSB_ERROR_NO_MEM -> TRUE
      [] status = LIBUSB_ERROR_NOT_SUPPORTED -> TRUE
      [] status = LIBUSB_ERROR_OTHER -> TRUE
      [] OTHER -> FALSE

(***************************************************************************)
(* What the transport can answer.                                          *)
(***************************************************************************)
\* A negative int that enum libusb_error does not name.
UnrecognizedStatus == LIBUSB_ERROR_NOT_SUPPORTED - 1

\* libusb_init, libusb_open, libusb_get_device_descriptor: 0 or an error code.
StatusResults == { LIBUSB_SUCCESS, LIBUSB_ERROR_IO, LIBUSB_ERROR_OTHER }

\* libusb_control_transfer with wLength = 64: the number of bytes transferred
\* (at most wLength), or a negative int.
TransferResults ==
    { 0, 1, ReceiveBufferSize - 1, ReceiveBufferSize,
      LIBUSB_ERROR_IO, LIBUSB_ERROR_OTHER, UnrecognizedStatus }

\* libusb_get_string_descriptor_ascii with a buffer of 256 bytes: the number
\* of characters written (the terminating 0 not counted), or a negative int.
StringResults ==
    { 0, 1, StringBufferSize - 1,
      LIBUSB_ERROR_IO, LIBUSB_ERROR_OTHER, UnrecognizedStatus }

(***************************************************************************)
(* Outcomes of an operation: a normal return, or the exception thrown.     *)
(***************************************************************************)
Returned == [kind |-> "Returned", code |-> 0, context |-> "", cause |-> "none"]

\* StatusException (static_cast<libusb_error> (code))
StatusException(code) ==
    [kind |-> "StatusException", code |-> code, context |-> "", cause |-> "none"]

\* UnavailableException()
UnavailableException ==
    [kind |-> "UnavailableException", code |-> 0,
     context |-> "result unavailable", cause |-> "none"]

\* std::throw_with_nested (Exception (context)) while `inner` is in flight:
\* an Exception that carries `inner` as its nested exception.
throw_with_nested(context, inner) ==
    [kind |-> "Exception", code |-> inner.code, context |-> context,
     cause |-> inner.kind]

\* std::length_error, thrown by std::vector::resize.
LengthError ==
    [kind |-> "length_error", code |-> 0, context |-> "", cause |-> "none"]

\* The process ended by a signal (SIGSEGV, SIGABRT) in the middle of an
\* operation: one of the things undefined behaviour comes to.
Terminated ==
    [kind |-> "terminated", code |-> 0, context |-> "", cause |-> "none"]

\* std::bad_alloc, thrown by a std::vector that cannot get storage to grow.
BadAlloc ==
    [kind |-> "bad_alloc", code |-> 0, context |-> "", cause |-> "none"]

(***************************************************************************)
(* Calls to the transport.                                                 *)
(***************************************************************************)
Call(fn, arg) == [fn |-> fn, arg |-> arg]

RECURSIVE CountCalls(_, _, _)
CountCalls(cs, fn, arg) ==
    IF cs = <<>> THEN 0
    ELSE (IF Head(cs) = Call(fn, arg) THEN 1 ELSE 0) + CountCalls(Tail(cs), fn, arg)

RECURSIVE CountFn(_, _)
CountFn(cs, fn) ==
    IF cs = <<>> THEN 0
    ELSE (IF Head(cs).fn = fn THEN 1 ELSE 0) + CountFn(Tail(cs), fn)

(***************************************************************************)
(* State.                                                                  *)
(***************************************************************************)
VARIABLES
    objects,    \* the DeviceDescriptor objects: _device, _descriptor
    devices,    \* the Device objects: _descriptor, _handle
    bus,        \* the Bus objects: _context
    contexts,   \* the libusb_context* values libusb_init has produced
    exited,     \* per libusb_context*: libusb_exit calls since libusb_init produced it
    refcount,   \* per libusb_device*: libusb_ref_device calls minus libusb_unref_device calls
    sessions,   \* number of handles libusb_open has produced so far
    closed,     \* per libusb_device_handle*: number of libusb_close calls
    calls,      \* the transport calls of the last operation, in order
    last        \* the last operation: what was called, with what, and how it ended

vars == <<objects, devices, bus, contexts, exited, refcount, sessions, closed, calls, last>>

\* boost::optional<libusb_device_descriptor>: none, or a record.  Record 0 is
\* the value-initialised libusb_device_descriptor(); record d > 0 is what the
\* transport writes for device d.
none == [engaged |-> FALSE, record |-> 0]
Some(record) == [engaged |-> TRUE, record |-> record]

NoObject ==
    [alive |-> FALSE, shared |-> FALSE, device |-> nullptr, descriptor |-> none,
     fetches |-> 0, failed |-> FALSE]

\* A DeviceDescriptor right after one of its constructors: none of them
\* initialises _descriptor, so the optional starts empty.
NewObject(device, shared) ==
    [alive |-> TRUE, shared |-> shared, device |-> device, descriptor |-> none,
     fetches |-> 0, failed |-> FALSE]

NoDevice == [alive |-> FALSE, descriptor |-> 0, handle |-> nullptr]

NoBus == [alive |-> FALSE, context |-> nullptr]

\* The record of an operation: its name, the object it ran on, its other
\* argument, the transport's int answer and (for an enumeration) the list
\* the transport wrote, how the operation ended, and what it returned.
NoOperation ==
    [op |-> "none", self |-> 0, other |-> 0, status |-> 0, list |-> <<>>,
     outcome |-> Returned, value |-> <<>>]

Operation(op, self, other, status, outcome, value) ==
    [op |-> op, self |-> self, other |-> other, status |-> status, list |-> <<>>,
     outcome |-> outcome, value |-> value]

Init ==
    /\ objects = [o \in ObjectIds |-> NoObject]
    /\ devices = [d \in DeviceIds |-> NoDevice]
    /\ bus = [b \in BusIds |-> NoBus]
    /\ contexts = {}
    /\ exited = [c \in Contexts |-> 0]
    /\ refcount = [h \in Devices |-> 0]
    /\ sessions = 0
    /\ closed = [s \in Sessions |-> 0]
    /\ calls = <<>>
    /\ last = NoOperation

FreeObjects == { o \in ObjectIds : ~objects[o].alive }
LiveObjects == { o \in ObjectIds : objects[o].alive }
\* Objects the caller owns (not the ones a Device keeps in its shared_ptr).
OwnObjects == { o \in LiveObjects : ~objects[o].shared }
FreeDevices == { d \in DeviceIds : ~devices[d].alive }
LiveDevices == { d \in DeviceIds : devices[d].alive }
FreeBuses == { b \in BusIds : ~bus[b].alive }
LiveBuses == { b \in BusIds : bus[b].alive }

Lowest(S) == CHOOSE x \in S : \A y \in S : x <= y

\* The effect of a sequence of transport calls on the transport's counters.
Refcount(cs) ==
    [h \in Devices |->
        refcount[h] + CountCalls(cs, "libusb_ref_device", h)
                    - CountCalls(cs, "libusb_unref_device", h)]

Closed(cs) ==
    [s \in Sessions |-> closed[s] + CountCalls(cs, "libusb_close", s)]

\* A context libusb_init writes to *ctx starts a new life with no libusb_exit.
Exited(cs) ==
    [c \in Contexts |->
        IF CountCalls(cs, "libusb_init", c) > 0
        THEN 0
        ELSE exited[c] + CountCalls(cs, "libusb_exit", c)]

\* Nothing runs in a process that was terminated.
Transport(cs) ==
    /\ last.outcome # Terminated
    /\ calls' = cs
    /\ refcount' = Refcount(cs)
    /\ closed' = Closed(cs)
    /\ contexts' = contexts \cup { c \in Contexts : CountCalls(cs, "libusb_init", c) > 0 }
    /\ exited' = Exited(cs)

(***************************************************************************)
(* DeviceDescriptor                                                        *)
(***************************************************************************)
\* cleanup() dropping two references instead of one.
DeviceDescriptor_cleanup_twice(device) ==
    IF device # nullptr
    THEN <<Call("libusb_unref_device", device), Call("libusb_unref_device", device)>>
    ELSE <<>>

\* void DeviceDescriptor::cleanup(): if (_device) libusb_unref_device (_device)
DeviceDescriptor_cleanup(device) ==
    IF device # nullptr THEN <<Call("libusb_unref_device", device)>> ELSE <<>>

\* void DeviceDescriptor::reset(): _device = nullptr
DeviceDescriptor_reset(obj) ==
    [obj EXCEPT !.device = nullptr]

\* DeviceDescriptor::DeviceDescriptor (libusb_device* device)
DeviceDescriptor_ctor(device) ==
    /\ FreeObjects # {}
    /\ LET self == Lowest(FreeObjects) IN
        /\ objects' = [objects EXCEPT ![self] = NewObject(device, FALSE)]
        /\ Transport(<<Call("libusb_ref_device", device)>>)
        /\ last' = Operation("DeviceDescriptor", self, 0, 0, Returned, <<>>)
    /\ UNCHANGED <<devices, bus, sessions>>

\* DeviceDescriptor::DeviceDescriptor (DeviceDescriptor const& other)
DeviceDescriptor_copy_ctor(other) ==
    /\ FreeObjects # {}
    /\ LET self == Lowest(FreeObjects) IN
        /\ objects' = [objects EXCEPT ![self] = NewObject(objects[other].device, FALSE)]
        /\ Transport(<<Call("libusb_ref_device", objects[other].device)>>)
        /\ last' = Operation("DeviceDescriptor(const&)", self, other, 0, Returned, <<>>)
    /\ UNCHANGED <<devices, bus, sessions>>

\* DeviceDescriptor::DeviceDescriptor (DeviceDescriptor&& other)
DeviceDescriptor_move_ctor(other) ==
    /\ FreeObjects # {}
    /\ LET self == Lowest(FreeObjects) IN
        /\ objects' = [objects EXCEPT
                          ![self] = NewObject(objects[other].device, FALSE),
                          ![other] = DeviceDescriptor_reset(@)]
        /\ Transport(<<>>)
        /\ last' = Operation("DeviceDescriptor(&&)", self, other, 0, Returned, <<>>)
    /\ UNCHANGED <<devices, bus, sessions>>

\* DeviceDescriptor::~DeviceDescriptor()
DeviceDescriptor_dtor(self) ==
    /\ objects' = [objects EXCEPT ![self] = NoObject]
    /\ Transport(DeviceDescriptor_cleanup(objects[self].device))
    /\ last' = Operation("~DeviceDescriptor", self, 0, 0, Returned, <<>>)
    /\ UNCHANGED <<devices, bus, sessions>>

\* DeviceDescriptor& DeviceDescriptor::operator= (DeviceDescriptor const& other)
DeviceDescriptor_copy_assign(self, other) ==
    /\ objects' = [objects EXCEPT ![self].device = objects[other].device]
    /\ Transport(DeviceDescriptor_cleanup(objects[self].device)
                 \o <<Call("libusb_ref_device", objects[other].device)>>)
    /\ last' = Operation("operator=(const&)", self, other, 0, Returned, <<>>)
    /\ UNCHANGED <<devices, bus, sessions>>

\* DeviceDescriptor& DeviceDescriptor::operator= (DeviceDescriptor&& other)
DeviceDescriptor_move_assign(self, other) ==
    /\ LET assigned == [objects EXCEPT ![self].device = objects[other].device] IN
        objects' = [assigned EXCEPT ![other] = DeviceDescriptor_reset(@)]
    /\ Transport(DeviceDescriptor_cleanup(objects[self].device))
    /\ last' = Operation("operator=(&&)", self, other, 0, Returned, <<>>)
    /\ UNCHANGED <<devices, bus, sessions>>

\* What libusb_get_device_descriptor leaves in *desc: the device's record when
\* it succeeds, the record untouched when it does not.
Fetched(device, err) == IF err = LIBUSB_SUCCESS THEN device ELSE 0

\* descriptor() that never keeps what it fetched.
descriptor_cache_never_kept(obj, err) ==
    none

\* The optional _descriptor after descriptor() has run with the transport
\* answering err: emplace() comes before the call and nothing undoes it.
descriptor_cache(obj, err) ==
    IF obj.descriptor.engaged THEN obj.descriptor
    ELSE Some(Fetched(obj.device, err))

\* libusb_device_descriptor& DeviceDescriptor::descriptor() const, and with it
\* every accessor that projects a field of its result (vendor_id, ...).
DeviceDescriptor_descriptor(self, err) ==
    LET obj == objects[self]
        hit == obj.descriptor.engaged
        cache == descriptor_cache(obj, err)
    IN
    /\ objects' = [objects EXCEPT
                      ![self].descriptor = cache,
                      ![self].fetches = IF hit THEN @ ELSE @ + 1,
                      ![self].failed = IF hit THEN @ ELSE is_error(err)]
    /\ Transport(IF hit THEN <<>>
                 ELSE <<Call("libusb_get_device_descriptor", obj.device)>>)
    /\ last' = IF hit
               THEN Operation("descriptor", self, 0, 0, Returned, <<obj.descriptor.record>>)
               ELSE IF is_error(err)
               THEN Operation("descriptor", self, 0, err, StatusException(err), <<>>)
               ELSE Operation("descriptor", self, 0, err, Returned, <<cache.record>>)
    /\ UNCHANGED <<devices, bus, sessions>>

\* A Device that keeps no DeviceDescriptor of its own and so takes no
\* reference on the device.
Device_ctor_takes_no_reference(descriptor, held, handle) ==
    [descriptor |-> NewObject(descriptor.device, TRUE),
     device |-> [alive |-> TRUE, descriptor |-> held, handle |-> handle],
     calls |-> <<>>]

\* Device::Device (DeviceDescriptor const& descriptor, libusb_device_handle* handle):
\* _descriptor (std::make_shared<DeviceDescriptor> (descriptor)), _handle (handle).
\* The DeviceDescriptor it makes (stored as object `held`) is copy-constructed
\* from `descriptor`.
Device_ctor(descriptor, held, handle) ==
    [descriptor |-> NewObject(descriptor.device, TRUE),
     device |-> [alive |-> TRUE, descriptor |-> held, handle |-> handle],
     calls |-> <<Call("libusb_ref_device", descriptor.device)>>]

\* Device DeviceDescriptor::open() const
DeviceDescriptor_open(self, err) ==
    LET device == objects[self].device IN
    IF is_error(err)
    THEN /\ Transport(<<Call("libusb_open", device)>>)
         /\ last' = Operation("open", self, 0, err, StatusException(err), <<>>)
         /\ UNCHANGED <<objects, devices, bus, sessions>>
    ELSE /\ FreeObjects # {}
         /\ FreeDevices # {}
         /\ sessions < MaxSessions
         /\ LET handle == sessions + 1
                held == Lowest(FreeObjects)
                opened == Lowest(FreeDevices)
                made == Device_ctor(objects[self], held, handle)
            IN
            \* return Device (*this, handle)
            /\ sessions' = handle
            /\ objects' = [objects EXCEPT ![held] = made.descriptor]
            /\ devices' = [devices EXCEPT ![opened] = made.device]
            /\ Transport(<<Call("libusb_open", device)>> \o made.calls)
            /\ last' = Operation("open", self, 0, err, Returned, <<opened>>)
         /\ UNCHANGED bus

(***************************************************************************)
(* low_level::DeviceList                                                   *)
(***************************************************************************)
RECURSIVE Injective(_)
Injective(list) ==
    \/ list = <<>>
    \/ /\ \A i \in 1 .. Len(list) - 1 : list[i] # list[Len(list)]
       /\ Injective(SubSeq(list, 1, Len(list) - 1))

\* What libusb_get_device_list can answer: an error code, or a list of
\* distinct devices together with its length.
DeviceLists ==
    { list \in UNION { [1 .. n -> Devices] : n \in 0 .. MaxDevices } : Injective(list) }

ListResults ==
    { [size |-> Len(list), list |-> list] : list \in DeviceLists }
    \cup { [size |-> err, list |-> <<>>] : err \in StatusResults \ {LIBUSB_SUCCESS} }

\* The same, and a negative int that enum libusb_error does not name.
AnyListResults ==
    ListResults \cup { [size |-> UnrecognizedStatus, list |-> <<>>] }

\* DeviceList::DeviceList (libusb_context*): _size holds the result, and
\* is_error (_size) sees it as the int it was (size_t -> int takes the low 32
\* bits, which for every int result is the result itself).
DeviceList_ctor_throws(result) == is_error(result.size)

\* A DeviceList that is alive although the transport reported no list: the
\* constructor did not throw, _size holds a negative int converted to
\* std::size_t (2^64 + size), and _list is whatever the transport left there.
\* Walking from begin() to end() and passing _list to libusb_free_device_list
\* are undefined.
DeviceList_indeterminate(result) ==
    ~DeviceList_ctor_throws(result) /\ result.size < 0

\* A DeviceList whose destructor releases nothing.
DeviceList_dtor_releases_nothing == <<>>

\* DeviceList::~DeviceList(): libusb_free_device_list (_list, 1)
DeviceList_dtor == <<Call("libusb_free_device_list", 1)>>

(***************************************************************************)
(* DeviceDescriptor::parent                                                *)
(***************************************************************************)
\* parent() reporting a missing parent as a status error.
parent_outcome_status(parent_device) ==
    IF parent_device # nullptr THEN Returned
    ELSE StatusException(LIBUSB_ERROR_NOT_FOUND)

\* if (parent_device) return DeviceDescriptor (parent_device);
\* else throw UnavailableException();
parent_outcome(parent_device) ==
    IF parent_device # nullptr THEN Returned ELSE UnavailableException

\* A parent() that lets go of the list before it asks for the parent.
parent_calls_list_released_first(device, parent_device) ==
    DeviceList_dtor
    \o <<Call("libusb_get_parent", device)>>
    \o (IF parent_device # nullptr
        THEN <<Call("libusb_ref_device", parent_device)>>
        ELSE <<>>)

\* What parent() calls once `devices` is constructed: libusb_get_parent, the
\* constructor of the returned DeviceDescriptor when there is a parent, and
\* the destructor of `devices` as the function is left.
parent_calls(device, parent_device) ==
    <<Call("libusb_get_parent", device)>>
    \o (IF parent_device # nullptr
        THEN <<Call("libusb_ref_device", parent_device)>>
        ELSE <<>>)
    \o DeviceList_dtor

\* DeviceDescriptor DeviceDescriptor::parent (Bus const& bus) const
DeviceDescriptor_parent(self, result, parent_device) ==
    LET device == objects[self].device
        acquire == <<Call("libusb_get_device_list", 0)>>
    IN
    /\ LiveBuses # {}
    /\ IF DeviceList_ctor_throws(result)
       THEN /\ Transport(acquire)
            /\ last' = Operation("parent", self, 0, result.size,
                                 StatusException(result.size), <<>>)
            /\ UNCHANGED objects
       ELSE \* libusb_free_device_list on an indeterminate _list ends the
            \* process, or does no harm and parent() ends as it would have.
            \/ /\ DeviceList_indeterminate(result)
               /\ Transport(acquire \o parent_calls(device, parent_device))
               /\ last' = Operation("parent", self, parent_device, result.size,
                                    Terminated, <<>>)
               /\ UNCHANGED objects
            \/ IF parent_device # nullptr
               THEN /\ FreeObjects # {}
                    /\ LET made == Lowest(FreeObjects) IN
                        /\ objects' = [objects EXCEPT
                                          ![made] = NewObject(parent_device, FALSE)]
                        /\ last' = Operation("parent", self, parent_device, result.size,
                                             parent_outcome(parent_device), <<made>>)
                    /\ Transport(acquire \o parent_calls(device, parent_device))
               ELSE /\ Transport(acquire \o parent_calls(device, parent_device))
                    /\ last' = Operation("parent", self, parent_device, result.size,
                                         parent_outcome(parent_device), <<>>)
                    /\ UNCHANGED objects
    /\ UNCHANGED <<devices, bus, sessions>>

(***************************************************************************)
(* Device                                                                  *)
(***************************************************************************)
\* void Device::cleanup(): if (_handle) libusb_close (_handle)
Device_cleanup(handle) ==
    IF handle # nullptr THEN <<Call("libusb_close", handle)>> ELSE <<>>

\* reset() leaving the handle in the moved-from Device.
Device_reset_keeps_handle(dev) ==
    dev

\* void Device::reset(): _handle = nullptr
Device_reset(dev) ==
    [dev EXCEPT !.handle = nullptr]

\* The Device objects whose shared_ptr _descriptor points at `held`.
Holders(devs, held) == { d \in DeviceIds : devs[d].alive /\ devs[d].descriptor = held }

\* The shared_ptr control block: the DeviceDescriptor objects that `before`
\* kept alive and `after` no longer does are destroyed (their destructor
\* running cleanup()).
Released(before, after) ==
    { o \in ObjectIds :
        /\ objects[o].alive /\ objects[o].shared
        /\ Holders(before, o) # {}
        /\ Holders(after, o) = {} }

RECURSIVE ReleaseCalls(_)
ReleaseCalls(released) ==
    IF released = {} THEN <<>>
    ELSE LET o == Lowest(released) IN
         DeviceDescriptor_cleanup(objects[o].device) \o ReleaseCalls(released \ {o})

Release(released) ==
    [o \in ObjectIds |-> IF o \in released THEN NoObject ELSE objects[o]]

\* A Device that lets go of its DeviceDescriptor before it closes its handle.
Device_release_then_cleanup(handle, released) ==
    ReleaseCalls(released) \o Device_cleanup(handle)

\* cleanup() is the first statement of ~Device() and of operator= (Device&&);
\* the shared_ptr _descriptor lets go of what it pointed at after it, when
\* the members are destroyed or _descriptor is assigned.
Device_cleanup_then_release(handle, released) ==
    Device_cleanup(handle) \o ReleaseCalls(released)

\* Device::Device (Device&& other)
Device_move_ctor(other) ==
    /\ FreeDevices # {}
    /\ LET self == Lowest(FreeDevices) IN
        /\ devices' = [devices EXCEPT
                          ![self] = [alive |-> TRUE,
                                     descriptor |-> devices[other].descriptor,
                                     handle |-> devices[other].handle],
                          ![other] = Device_reset(@)]
        /\ last' = Operation("Device(&&)", self, other, 0, Returned, <<>>)
    /\ Transport(<<>>)
    /\ UNCHANGED <<objects, bus, sessions>>

\* Device::~Device(): cleanup(), then the members are destroyed
Device_dtor(self) ==
    LET after == [devices EXCEPT ![self] = NoDevice]
        released == Released(devices, after)
    IN
    /\ devices' = after
    /\ objects' = Release(released)
    /\ Transport(Device_cleanup_then_release(devices[self].handle, released))
    /\ last' = Operation("~Device", self, 0, 0, Returned, <<>>)
    /\ UNCHANGED <<bus, sessions>>

\* Device& Device::operator= (Device&& other)
Device_move_assign(self, other) ==
    LET assigned == [devices EXCEPT
                        ![self].descriptor = devices[other].descriptor,
                        ![self].handle = devices[other].handle]
        after == [assigned EXCEPT ![other] = Device_reset(@)]
        released == Released(devices, after)
    IN
    /\ devices' = after
    /\ objects' = Release(released)
    /\ Transport(Device_cleanup_then_release(devices[self].handle, released))
    /\ last' = Operation("Device::operator=(&&)", self, other, 0, Returned, <<>>)
    /\ UNCHANGED <<bus, sessions>>

\* void Device::send (ControlTransfer const&, int timeout_ms, std::vector<uint8_t> const&)
Device_send(self, bytes_transferred) ==
    /\ Transport(<<Call("libusb_control_transfer", devices[self].handle)>>)
    /\ last' = Operation("send", self, 0, bytes_transferred,
                         IF is_error(bytes_transferred)
                         THEN StatusException(bytes_transferred)
                         ELSE Returned,
                         <<>>)
    /\ UNCHANGED <<objects, devices, bus, sessions>>

\* resize() that leaves the vector as it is when given a negative size.
vector_resize_clamps(size, new_size) ==
    [thrown |-> FALSE, size |-> IF new_size < 0 THEN size ELSE new_size]

\* buffer.resize (bytes_transferred): the int argument converts to size_type
\* modulo 2^64 (2^32), so a negative int asks for more than max_size()
\* elements and resize throws std::length_error; otherwise the vector has
\* the new size.
vector_resize(size, new_size) ==
    IF new_size < 0
    THEN [thrown |-> TRUE, size |-> size]
    ELSE [thrown |-> FALSE, size |-> new_size]

\* std::vector<uint8_t> Device::receive (ControlTransfer const& ct, int timeout_ms)
Device_receive(self, bytes_transferred) ==
    LET resized == vector_resize(ReceiveBufferSize, bytes_transferred) IN
    /\ Transport(<<Call("libusb_control_transfer", devices[self].handle)>>)
    /\ last' = IF is_error(bytes_transferred)
               THEN Operation("receive", self, 0, bytes_transferred,
                              StatusException(bytes_transferred), <<>>)
               ELSE IF resized.thrown
               THEN Operation("receive", self, 0, bytes_transferred, LengthError, <<>>)
               ELSE Operation("receive", self, 0, bytes_transferred, Returned,
                              <<resized.size>>)
    /\ UNCHANGED <<objects, devices, bus, sessions>>

\* The string descriptor indices (uint8_t iManufacturer, iProduct,
\* iSerialNumber) in a libusb_device_descriptor: all 0 in the value-initialised
\* record 0; in the record the transport writes for device d, each is 0 (the
\* device has no such string) for some devices and not for others.
StringFields == { "iManufacturer", "iProduct", "iSerialNumber" }

StringIndex(record, field) ==
    IF record = 0 THEN 0
    ELSE CASE field = "iManufacturer" -> record - 1
           [] field = "iProduct" -> record % 2
           [] field = "iSerialNumber" -> (record + 1) % 3

\* std::string Device::get_usb_string (int string_id) const: the calls it
\* makes, how it ends, and the length of the string it returns.  The result
\* of the transport is tested with chars < 0.
get_usb_string(string_id, chars) ==
    IF string_id > 0
    THEN [calls |-> <<Call("libusb_get_string_descriptor_ascii", string_id)>>,
          outcome |-> IF chars < 0 THEN StatusException(chars) ELSE Returned,
          value |-> IF chars < 0 THEN <<>> ELSE <<chars>>]
    ELSE [calls |-> <<>>, outcome |-> Returned, value |-> <<0>>]

\* return get_usb_string (_descriptor->descriptor().<field>): descriptor() of
\* the DeviceDescriptor the Device keeps (with err the transport's answer if
\* it has to fetch), then get_usb_string (with chars the transport's answer
\* if it asks).
Device_string(self, op, field, err, chars) ==
    LET held == devices[self].descriptor
        obj == objects[held]
        hit == obj.descriptor.engaged
        cache == descriptor_cache(obj, err)
        fetch == IF hit THEN <<>>
                 ELSE <<Call("libusb_get_device_descriptor", obj.device)>>
        string_id == StringIndex(cache.record, field)
        got == get_usb_string(string_id, chars)
    IN
    /\ objects' = [objects EXCEPT
                      ![held].descriptor = cache,
                      ![held].fetches = IF hit THEN @ ELSE @ + 1,
                      ![held].failed = IF hit THEN @ ELSE is_error(err)]
    /\ IF ~hit /\ is_error(err)
       THEN /\ Transport(fetch)
            /\ last' = Operation(op, self, 0, err, StatusException(err), <<>>)
       ELSE /\ Transport(fetch \o got.calls)
            /\ last' = Operation(op, self, string_id,
                                 IF got.calls = <<>> THEN 0 ELSE chars,
                                 got.outcome, got.value)
    /\ UNCHANGED <<devices, bus, sessions>>

\* std::string Device::manufacturer() const
Device_manufacturer(self, err, chars) ==
    Device_string(self, "manufacturer", "iManufacturer", err, chars)

\* std::string Device::product() const
Device_product(self, err, chars) ==
    Device_string(self, "product", "iProduct", err, chars)

\* std::string Device::serial_number() const
Device_serial_number(self, err, chars) ==
    Device_string(self, "serial_number", "iSerialNumber", err, chars)

(***************************************************************************)
(* Bus                                                                     *)
(***************************************************************************)
\* A catch block that lets the exception through as it is.
catch_rethrows_bare(context, thrown) ==
    thrown

\* The exception that leaves a try { ... } catch (...) { std::throw_with_nested
\* (Exception (context)); } block whose body threw `thrown`.
catch_throw_with_nested(context, thrown) ==
    throw_with_nested(context, thrown)

\* The addresses libusb_init can hand out: those of no context that is still
\* allocated (produced and not yet passed to libusb_exit), and of none that a
\* Bus object still points to.
FreeContexts ==
    { c \in Contexts :
        /\ c \notin contexts \/ exited[c] > 0
        /\ \A b \in LiveBuses : bus[b].context # c }

\* Bus::Bus().  When libusb_init fails the constructor throws and no Bus
\* object comes to exist.
Bus_ctor(self, err) ==
    /\ ~bus[self].alive
    /\ IF is_error(err)
       THEN /\ Transport(<<Call("libusb_init", nullptr)>>)
            /\ UNCHANGED bus
       ELSE /\ FreeContexts # {}
            /\ LET context == Lowest(FreeContexts) IN
                /\ bus' = [bus EXCEPT ![self] = [alive |-> TRUE, context |-> context]]
                /\ Transport(<<Call("libusb_init", context)>>)
    /\ last' = Operation("Bus", self, 0, err,
                         IF is_error(err)
                         THEN catch_throw_with_nested("failed to create libusb session",
                                                      StatusException(err))
                         ELSE Returned,
                         <<>>)
    /\ UNCHANGED <<objects, devices, sessions>>

\* Bus (Bus const&): class Bus declares no copy constructor, so the implicit
\* one copies _context.
Bus_copy_ctor(other) ==
    /\ FreeBuses # {}
    /\ LET self == Lowest(FreeBuses) IN
        /\ bus' = [bus EXCEPT ![self] = [alive |-> TRUE, context |-> bus[other].context]]
        /\ last' = Operation("Bus(const&)", self, other, 0, Returned, <<>>)
    /\ Transport(<<>>)
    /\ UNCHANGED <<objects, devices, sessions>>

\* Bus& operator= (Bus const&): implicit as well, it overwrites _context.
Bus_copy_assign(self, other) ==
    /\ bus' = [bus EXCEPT ![self].context = bus[other].context]
    /\ last' = Operation("Bus::operator=(const&)", self, other, 0, Returned, <<>>)
    /\ Transport(<<>>)
    /\ UNCHANGED <<objects, devices, sessions>>

\* Bus::~Bus().  "All Devices must be deleted before Bus is deleted."
Bus_dtor(self) ==
    /\ bus[self].alive
    /\ LiveObjects = {}
    /\ LiveDevices = {}
    /\ bus' = [bus EXCEPT ![self] = NoBus]
    /\ Transport(<<Call("libusb_exit", bus[self].context)>>)
    /\ last' = [Operation("~Bus", self, 0, 0, Returned, <<>>)
                   EXCEPT !.other = bus[self].context]
    /\ UNCHANGED <<objects, devices, sessions>>

\* std::vector growth (libstdc++): a full vector of `size` elements moves to
\* storage of twice the size; it is full when size is 0 or a power of two.
RECURSIVE IsPowerOfTwo(_)
IsPowerOfTwo(n) ==
    \/ n = 1
    \/ n > 1 /\ n % 2 = 0 /\ IsPowerOfTwo(n \div 2)

Reallocates(size) == size = 0 \/ IsPowerOfTwo(size)

\* result.emplace_back (d) with `held` already in the vector: the new element
\* is constructed from the raw pointer (DeviceDescriptor (libusb_device*)),
\* and on reallocation every old element is copied to the new storage (the
\* move constructor is not noexcept) and then destroyed.
RECURSIVE RefAll(_)
RefAll(held) ==
    IF held = <<>> THEN <<>>
    ELSE <<Call("libusb_ref_device", Head(held))>> \o RefAll(Tail(held))

RECURSIVE CleanupAll(_)
CleanupAll(held) ==
    IF held = <<>> THEN <<>>
    ELSE DeviceDescriptor_cleanup(Head(held)) \o CleanupAll(Tail(held))

\* emplace_back whose reallocation copies the old elements and never destroys
\* the originals.
emplace_back_leaks_old(held, d) ==
    <<Call("libusb_ref_device", d)>>
    \o (IF Reallocates(Len(held)) THEN RefAll(held) ELSE <<>>)

\* result.emplace_back (d) with `held` already in the vector.
emplace_back(held, d) ==
    <<Call("libusb_ref_device", d)>>
    \o (IF Reallocates(Len(held)) THEN RefAll(held) \o CleanupAll(held) ELSE <<>>)

\* for (auto const& d: devices) result.emplace_back (d);
\* begin() is _list and end() is _list + _size.
RECURSIVE BuildCalls(_, _)
BuildCalls(list, n) ==
    IF n = 0 THEN <<>>
    ELSE BuildCalls(list, n - 1) \o emplace_back(SubSeq(list, 1, n - 1), list[n])

RECURSIVE LowestN(_, _)
LowestN(S, n) ==
    IF n = 0 THEN <<>>
    ELSE <<Lowest(S)>> \o LowestN(S \ {Lowest(S)}, n - 1)

\* The emplace_back calls of an enumeration of `size` devices that ask the
\* allocator for storage, and so can end in std::bad_alloc.
Allocations(size) == { i \in 1 .. size : Reallocates(i - 1) }

\* DeviceDescriptors Bus::device_descriptors() const.  bad_alloc is 0, or the
\* number of the emplace_back whose allocation fails: the vector keeps its
\* elements, `devices` is destroyed on leaving the try block, the catch block
\* rethrows, and `result` is destroyed with its elements.
Bus_device_descriptors(result, bad_alloc) ==
    LET acquire == <<Call("libusb_get_device_list", 0)>> IN
    /\ LiveBuses # {}
    /\ IF DeviceList_ctor_throws(result)
       THEN /\ bad_alloc = 0
            /\ Transport(acquire)
            /\ last' = Operation("device_descriptors", 0, 0, result.size,
                                 catch_throw_with_nested("failed to get device list",
                                                         StatusException(result.size)),
                                 <<>>)
            /\ UNCHANGED objects
       ELSE IF DeviceList_indeterminate(result)
       THEN \* The loop walks 2^64 + size entries from an indeterminate _list:
            \* the process ends on an entry it cannot read or reference, or
            \* the vector runs out of storage first.
            /\ bad_alloc = 0
            /\ \E outcome \in { Terminated,
                                 catch_throw_with_nested("failed to get device list",
                                                         BadAlloc) } :
                  /\ Transport(acquire
                               \o (IF outcome = Terminated THEN <<>> ELSE DeviceList_dtor))
                  /\ last' = Operation("device_descriptors", 0, 0, result.size,
                                       outcome, <<>>)
            /\ UNCHANGED objects
       ELSE IF bad_alloc # 0
       THEN /\ bad_alloc \in Allocations(result.size)
            /\ Transport(acquire \o BuildCalls(result.list, bad_alloc - 1) \o DeviceList_dtor
                         \o CleanupAll(SubSeq(result.list, 1, bad_alloc - 1)))
            /\ last' = [Operation("device_descriptors", 0, bad_alloc, result.size,
                                  catch_throw_with_nested("failed to get device list", BadAlloc),
                                  <<>>)
                           EXCEPT !.list = result.list]
            /\ UNCHANGED objects
       ELSE /\ Cardinality(FreeObjects) >= result.size
            /\ LET made == LowestN(FreeObjects, result.size) IN
                /\ objects' = [o \in ObjectIds |->
                                  IF \E i \in 1 .. result.size : made[i] = o
                                  THEN NewObject(
                                         result.list[CHOOSE i \in 1 .. result.size : made[i] = o],
                                         FALSE)
                                  ELSE objects[o]]
                /\ last' = [Operation("device_descriptors", 0, 0, result.size, Returned, made)
                               EXCEPT !.list = result.list]
            /\ Transport(acquire \o BuildCalls(result.list, result.size) \o DeviceList_dtor)
    /\ UNCHANGED <<devices, bus, sessions>>

(***************************************************************************)
(* is_error, called on its own: the status is drawn by ClassifyInit and    *)
(* Classify applies the function to it.                                    *)
(***************************************************************************)
ClassifyInit ==
    /\ objects = [o \in ObjectIds |-> NoObject]
    /\ devices = [d \in DeviceIds |-> NoDevice]
    /\ bus = [b \in BusIds |-> NoBus]
    /\ contexts = {}
    /\ exited = [c \in Contexts |-> 0]
    /\ refcount = [h \in Devices |-> 0]
    /\ sessions = 0
    /\ closed = [s \in Sessions |-> 0]
    /\ calls = <<>>
    /\ \E status \in StatusRange :
          last = Operation("status", 0, 0, status, Returned, <<>>)

Classify ==
    /\ last.op = "status"
    /\ last' = Operation("is_error", 0, 0, last.status, Returned,
                         <<is_error(last.status)>>)
    /\ UNCHANGED <<objects, devices, bus, contexts, exited, refcount, sessions, closed, calls>>

ClassifyNext == Classify

ClassifySpec == ClassifyInit /\ [][ClassifyNext]_vars

(***************************************************************************)
(* The operations, as a caller can invoke them.  A caller uses an object   *)
(* only while it holds something: descriptor(), open() and parent() are    *)
(* called on a DeviceDescriptor with a device, send() and receive() on a   *)
(* Device with a handle.                                                   *)
(***************************************************************************)
\* One Bus at a time, as a program that never copies its Bus has it.
CreateBus ==
    \E err \in StatusResults : LiveBuses = {} /\ Bus_ctor(Lowest(BusIds), err)

CreateNextBus ==
    \E err \in StatusResults : FreeBuses # {} /\ Bus_ctor(Lowest(FreeBuses), err)

\* A caller copies a Bus while its session is up.
CopyBus ==
    \E other \in LiveBuses :
        exited[bus[other].context] = 0 /\ Bus_copy_ctor(other)

CopyAssignBus ==
    \E self \in LiveBuses, other \in LiveBuses :
        exited[bus[other].context] = 0 /\ Bus_copy_assign(self, other)

DestroyBus == \E self \in LiveBuses : Bus_dtor(self)

Enumerate ==
    \E result \in ListResults, bad_alloc \in 0 .. MaxDevices :
        Bus_device_descriptors(result, bad_alloc)

\* The same with a transport that may answer any int.
EnumerateAnyResult ==
    \E result \in AnyListResults, bad_alloc \in 0 .. MaxDevices :
        Bus_device_descriptors(result, bad_alloc)

Construct == \E device \in Devices : LiveBuses # {} /\ DeviceDescriptor_ctor(device)

\* Device's code never looks at which device its session belongs to: the
\* objects that get opened wrap the first or the last device.
SessionDevices == { Lowest(Devices), MaxDevices }

ConstructForSession ==
    \E device \in SessionDevices : LiveBuses # {} /\ DeviceDescriptor_ctor(device)

Copy == \E other \in LiveObjects : DeviceDescriptor_copy_ctor(other)

Move == \E other \in OwnObjects : DeviceDescriptor_move_ctor(other)

Destroy == \E self \in OwnObjects : DeviceDescriptor_dtor(self)

CopyAssign ==
    \E self \in OwnObjects, other \in LiveObjects :
        DeviceDescriptor_copy_assign(self, other)

MoveAssign ==
    \E self \in OwnObjects, other \in OwnObjects :
        DeviceDescriptor_move_assign(self, other)

Metadata ==
    \E self \in LiveObjects, err \in StatusResults :
        /\ objects[self].device # nullptr
        /\ DeviceDescriptor_descriptor(self, err)

Open ==
    \E self \in LiveObjects, err \in StatusResults :
        /\ objects[self].device # nullptr
        /\ DeviceDescriptor_open(self, err)

Parent ==
    \E self \in LiveObjects, result \in ListResults, parent_device \in Devices \cup {nullptr} :
        /\ objects[self].device # nullptr
        /\ parent_device # objects[self].device
        /\ DeviceDescriptor_parent(self, result, parent_device)

ParentAnyResult ==
    \E self \in LiveObjects, result \in AnyListResults,
       parent_device \in Devices \cup {nullptr} :
        /\ objects[self].device # nullptr
        /\ parent_device # objects[self].device
        /\ DeviceDescriptor_parent(self, result, parent_device)

MoveDevice == \E other \in LiveDevices : Device_move_ctor(other)

DestroyDevice == \E self \in LiveDevices : Device_dtor(self)

MoveAssignDevice ==
    \E self \in LiveDevices, other \in LiveDevices : Device_move_assign(self, other)

Send ==
    \E self \in LiveDevices, bytes_transferred \in TransferResults :
        /\ devices[self].handle # nullptr
        /\ Device_send(self, bytes_transferred)

Receive ==
    \E self \in LiveDevices, bytes_transferred \in TransferResults :
        /\ devices[self].handle # nullptr
        /\ Device_receive(self, bytes_transferred)

Manufacturer ==
    \E self \in LiveDevices, err \in StatusResults, chars \in StringResults :
        /\ devices[self].handle # nullptr
        /\ Device_manufacturer(self, err, chars)

Product ==
    \E self \in LiveDevices, err \in StatusResults, chars \in StringResults :
        /\ devices[self].handle # nullptr
        /\ Device_product(self, err, chars)

SerialNumber ==
    \E self \in LiveDevices, err \in StatusResults, chars \in StringResults :
        /\ devices[self].handle # nullptr
        /\ Device_serial_number(self, err, chars)

\* DeviceDescriptor objects: construction, copies, moves, assignments,
\* destruction and the cached descriptor.
Next ==
    \/ CreateBus
    \/ DestroyBus
    \/ Construct
    \/ Copy
    \/ Move
    \/ Destroy
    \/ CopyAssign
    \/ MoveAssign
    \/ Metadata

Spec == Init /\ [][Next]_vars

\* Device objects: opening, moves, assignment and destruction.
DeviceNext ==
    \/ CreateBus
    \/ DestroyBus
    \/ ConstructForSession
    \/ Destroy
    \/ Open
    \/ MoveDevice
    \/ DestroyDevice
    \/ MoveAssignDevice

DeviceSpec == Init /\ [][DeviceNext]_vars

\* Control transfers on opened devices.
TransferNext ==
    \/ CreateBus
    \/ DestroyBus
    \/ ConstructForSession
    \/ Destroy
    \/ Open
    \/ DestroyDevice
    \/ Send
    \/ Receive

TransferSpec == Init /\ [][TransferNext]_vars

\* The string accessors of opened devices.
StringNext ==
    \/ CreateBus
    \/ DestroyBus
    \/ ConstructForSession
    \/ Destroy
    \/ Open
    \/ DestroyDevice
    \/ Manufacturer
    \/ Product
    \/ SerialNumber

StringSpec == Init /\ [][StringNext]_vars

\* Bus: the context, enumeration and parent lookup.
BusNext ==
    \/ CreateBus
    \/ DestroyBus
    \/ Enumerate
    \/ Parent
    \/ Construct
    \/ Copy
    \/ Destroy

BusSpec == Init /\ [][BusNext]_vars

\* Enumeration and parent lookup over a transport that may answer any int.
ListNext ==
    \/ CreateBus
    \/ DestroyBus
    \/ EnumerateAnyResult
    \/ ParentAnyResult
    \/ Destroy

ListSpec == Init /\ [][ListNext]_vars

\* Bus objects: construction, copies, assignment and destruction.
ContextNext ==
    \/ CreateNextBus
    \/ CopyBus
    \/ CopyAssignBus
    \/ DestroyBus

ContextSpec == Init /\ [][ContextNext]_vars

(***************************************************************************)
(* Properties.                                                             *)
(***************************************************************************)
\* The status codes the specification calls recognized.
RecognizedErrors ==
    { LIBUSB_ERROR_IO, LIBUSB_ERROR_INVALID_PARAM, LIBUSB_ERROR_ACCESS,
      LIBUSB_ERROR_NO_DEVICE, LIBUSB_ERROR_NOT_FOUND, LIBUSB_ERROR_BUSY,
      LIBUSB_ERROR_TIMEOUT, LIBUSB_ERROR_OVERFLOW, LIBUSB_ERROR_PIPE,
      LIBUSB_ERROR_INTERRUPTED, LIBUSB_ERROR_NO_MEM, LIBUSB_ERROR_NOT_SUPPORTED,
      LIBUSB_ERROR_OTHER }

\* The live DeviceDescriptor objects whose _device is h.
HoldersOf(h) == { o \in ObjectIds : objects[o].alive /\ objects[o].device = h }

\* The live Device objects whose _handle is s.
OwnersOf(s) == { d \in DeviceIds : devices[d].alive /\ devices[d].handle = s }

\* C1: when a descriptor() access ends in a StatusException because
\* libusb_get_device_descriptor returned a recognized error code, the object
\* is left with no cached record (so that the next access fetches again).
C1_FailedFetchLeavesNoCacheEntry ==
    (/\ last.op = "descriptor"
     /\ last.outcome.kind = "StatusException"
     /\ last.status \in RecognizedErrors)
    => ~objects[last.self].descriptor.engaged

\* C2: on an object none of whose fetches failed, libusb_get_device_descriptor
\* is called exactly once, by the first access; every access returns the
\* cached record, a later access calls nothing, and the cached record never
\* changes while the object lives.
C2_OneFetchThenCached ==
    [][\A o \in ObjectIds :
          /\ (objects'[o].alive /\ ~objects'[o].failed) =>
                /\ objects'[o].fetches <= 1
                /\ (last'.op = "descriptor" /\ last'.self = o) =>
                      /\ objects'[o].fetches = 1
                      /\ last'.outcome = Returned
                      /\ last'.value = <<objects'[o].descriptor.record>>
                      /\ CountFn(calls', "libusb_get_device_descriptor")
                            = (IF objects[o].descriptor.engaged THEN 0 ELSE 1)
          /\ (objects[o].alive /\ objects'[o].alive /\ objects[o].descriptor.engaged) =>
                objects'[o].descriptor = objects[o].descriptor
      ]_vars

\* C2 witness: a second access on an object whose one fetch succeeded, served
\* from the cache without a transport call.
C2_Witness ==
    /\ last.op = "descriptor"
    /\ last.outcome = Returned
    /\ calls = <<>>
    /\ objects[last.self].fetches = 1
    /\ ~objects[last.self].failed
    /\ last.value = <<objects[last.self].device>>

\* C3: every handle a successful libusb_open produced is either held by
\* exactly one live Device and not yet closed, or held by none and closed
\* exactly once; no operation closes the null handle or closes twice.
C3_ClosedExactlyOnce ==
    /\ \A s \in Sessions :
          IF s <= sessions
          THEN closed[s] + Cardinality(OwnersOf(s)) = 1
          ELSE closed[s] = 0 /\ OwnersOf(s) = {}
    /\ CountCalls(calls, "libusb_close", nullptr) = 0
    /\ (last.op = "Device(&&)" => CountFn(calls, "libusb_close") = 0)

\* C3 witness: a Device holding a live handle was move-assigned another
\* Device's live handle; its old handle was closed by that assignment, the
\* source is left without a handle.
C3_Witness ==
    /\ last.op = "Device::operator=(&&)"
    /\ last.self # last.other
    /\ devices[last.self].handle # nullptr
    /\ devices[last.other].handle = nullptr
    /\ CountFn(calls, "libusb_close") = 1
    /\ closed[devices[last.self].handle] = 0

\* C4: for every raw device, libusb_ref_device calls minus libusb_unref_device
\* calls equals the number of live DeviceDescriptor objects holding it; a move
\* construction calls nothing and a destruction unrefs at most once.
C4_RefcountMatchesHolders ==
    /\ \A h \in Devices : refcount[h] = Cardinality(HoldersOf(h))
    /\ (last.op = "DeviceDescriptor(&&)" => calls = <<>>)
    /\ (last.op = "~DeviceDescriptor" => Len(calls) <= 1)
    /\ (last.op \in {"DeviceDescriptor", "DeviceDescriptor(const&)"} =>
          calls = <<Call("libusb_ref_device", objects[last.self].device)>>)

\* C4 witness: a move assignment between two distinct objects, both holding a
\* device: the destination gave up its own (one unref) and holds the source's,
\* the source is empty.
C4_Witness ==
    /\ last.op = "operator=(&&)"
    /\ last.self # last.other
    /\ objects[last.self].device # nullptr
    /\ objects[last.other].device = nullptr
    /\ CountFn(calls, "libusb_unref_device") = 1
    /\ refcount[objects[last.self].device] = 1

\* C5: is_error answers true exactly for the recognized status codes.
C5_ClassifiesRecognizedSet ==
    last.op = "is_error" => last.value = <<last.status \in RecognizedErrors>>

\* C5 witness: is_error was applied to a negative status outside the
\* recognized set and answered false.
C5_Witness ==
    /\ last.op = "is_error"
    /\ last.status < LIBUSB_ERROR_OTHER
    /\ last.value = <<FALSE>>

\* C6: whenever receive() returns a buffer, its length is the transferred
\* length the transport reported, and it lies in 0 .. 64.
C6_ReceivedLength ==
    (last.op = "receive" /\ last.outcome = Returned) =>
        /\ Len(last.value) = 1
        /\ last.value[1] = last.status
        /\ last.value[1] >= 0
        /\ last.value[1] <= ReceiveBufferSize

\* C6 witness: receive() returned a buffer shorter than the staging buffer.
C6_Witness ==
    /\ last.op = "receive"
    /\ last.outcome = Returned
    /\ last.status = ReceiveBufferSize - 1
    /\ last.value = <<ReceiveBufferSize - 1>>

\* C7: send() and receive() end in a StatusException carrying the result
\* whenever libusb_control_transfer reports a negative result, and return
\* normally only when the result is not negative.
C7_NegativeTransferFails ==
    last.op \in {"send", "receive"} =>
        /\ (last.status < 0 => last.outcome = StatusException(last.status))
        /\ (last.outcome = Returned => last.status >= 0)

\* C8: parent() whose DeviceList was acquired ends in UnavailableException
\* when libusb_get_parent yields no parent, creating no object and calling
\* libusb_ref_device not at all; with a parent it returns a new object holding
\* the parent, with exactly one libusb_ref_device call, on the parent.
C8_ParentOrUnavailable ==
    [][(last'.op = "parent" /\ ~(last'.status \in RecognizedErrors)) =>
          IF last'.other = nullptr
          THEN /\ last'.outcome = UnavailableException
               /\ last'.value = <<>>
               /\ objects' = objects
               /\ refcount' = refcount
               /\ CountFn(calls', "libusb_ref_device") = 0
          ELSE /\ last'.outcome = Returned
               /\ Len(last'.value) = 1
               /\ objects'[last'.value[1]].alive
               /\ objects'[last'.value[1]].device = last'.other
               /\ CountFn(calls', "libusb_ref_device") = 1
               /\ CountCalls(calls', "libusb_ref_device", last'.other) = 1
               /\ CountFn(calls', "libusb_unref_device") = 0
      ]_vars

\* C8 witness: parent() found no parent and ended in UnavailableException.
C8_Witness ==
    /\ last.op = "parent"
    /\ last.other = nullptr
    /\ last.outcome.kind = "UnavailableException"
    /\ CountFn(calls, "libusb_get_parent") = 1

\* C9: a device_descriptors() call to which the transport reports N devices
\* acquires the list once, releases it once and returns N objects, the i-th
\* holding the i-th device of the list; the calls it made leave, on every
\* device, one reference per returned object holding it, and the reference
\* count of every device equals the number of live objects holding it.
C9_EnumerationMaterialized ==
    (last.op = "device_descriptors" /\ last.outcome = Returned) =>
        /\ CountFn(calls, "libusb_get_device_list") = 1
        /\ CountFn(calls, "libusb_free_device_list") = 1
        /\ calls[Len(calls)].fn = "libusb_free_device_list"
        /\ Len(last.value) = last.status
        /\ Len(last.list) = last.status
        /\ \A i \in 1 .. Len(last.value) :
              /\ objects[last.value[i]].alive
              /\ objects[last.value[i]].device = last.list[i]
              /\ \A j \in 1 .. Len(last.value) : i # j => last.value[i] # last.value[j]
        /\ \A h \in Devices :
              /\ CountCalls(calls, "libusb_ref_device", h)
                    - CountCalls(calls, "libusb_unref_device", h)
                 = Cardinality({ i \in 1 .. Len(last.value) : objects[last.value[i]].device = h })
              /\ refcount[h] = Cardinality(HoldersOf(h))

\* C9 witness: an enumeration of as many devices as there are, during which
\* the growing vector copied and destroyed elements.
C9_Witness ==
    /\ last.op = "device_descriptors"
    /\ last.outcome = Returned
    /\ last.status >= 2
    /\ Len(last.value) = last.status
    /\ CountFn(calls, "libusb_unref_device") > 0

\* C10: when libusb_init (in Bus::Bus) or libusb_get_device_list (in
\* device_descriptors) reports a recognized error code, the operation ends in
\* an Exception nesting a StatusException with that code, returns nothing and
\* creates nothing; neither operation ever ends in a bare StatusException.
C10_FailureIsWrapped ==
    last.op \in {"Bus", "device_descriptors"} =>
        /\ last.outcome.kind # "StatusException"
        /\ last.status \in RecognizedErrors =>
              /\ last.outcome.kind = "Exception"
              /\ last.outcome.cause = "StatusException"
              /\ last.outcome.code = last.status
              /\ last.value = <<>>
              /\ (last.op = "Bus" => LiveBuses = {})

\* C10 witness: an enumeration failed with LIBUSB_ERROR_OTHER and ended in the
\* nested exception.
C10_Witness ==
    /\ last.op = "device_descriptors"
    /\ last.status = LIBUSB_ERROR_OTHER
    /\ last.outcome.kind = "Exception"
    /\ last.outcome.cause = "StatusException"


\* The live Bus objects whose _context is c.
BusesOf(c) == { b \in BusIds : bus[b].alive /\ bus[b].context = c }

\* C11: for every context a successful libusb_init produced, libusb_exit is
\* called exactly once over any sequence of Bus constructions, copies,
\* assignments and destructions: never more than once, and once no Bus object
\* holds the context any more it has been called; a Bus whose libusb_init
\* failed causes no libusb_exit call.
C11_ContextExitedExactlyOnce ==
    /\ \A c \in contexts :
          /\ exited[c] <= 1
          /\ (BusesOf(c) = {} => exited[c] = 1)
    /\ (last.op = "Bus" /\ last.outcome.kind # "Returned" =>
          /\ CountFn(calls, "libusb_exit") = 0
          /\ ~bus[last.self].alive)

\* C12: an operation that acquires the device list (device_descriptors(),
\* parent()) calls libusb_get_device_list once; when the acquisition succeeded
\* it calls libusb_free_device_list exactly once, after the acquisition, on
\* every way out (returning, failing midway, UnavailableException), and when
\* the acquisition failed it does not call libusb_free_device_list.
C12_ListReleasedExactlyOnce ==
    last.op \in {"device_descriptors", "parent"} =>
        /\ CountFn(calls, "libusb_get_device_list") = 1
        /\ calls[1].fn = "libusb_get_device_list"
        /\ CountFn(calls, "libusb_free_device_list")
              = (IF last.status \in RecognizedErrors THEN 0 ELSE 1)

\* C12 witness: an enumeration whose second emplace_back failed, after one
\* object had been built, released the list once.
C12_Witness ==
    /\ last.op = "device_descriptors"
    /\ last.outcome.cause = "bad_alloc"
    /\ CountFn(calls, "libusb_ref_device") > 0
    /\ CountFn(calls, "libusb_free_device_list") = 1

\* The names of the transport functions called, in the order of the calls.
CallOrder(cs) == [i \in 1 .. Len(cs) |-> cs[i].fn]

\* C13: parent() calls, in this order, libusb_get_device_list,
\* libusb_get_parent on its own device, libusb_ref_device on the parent when
\* there is one, and libusb_free_device_list; when the acquisition of the
\* list failed it calls libusb_get_parent not at all.
C13_ParentCallOrder ==
    last.op = "parent" =>
        IF last.status \in RecognizedErrors
        THEN CallOrder(calls) = <<"libusb_get_device_list">>
        ELSE IF last.other = nullptr
        THEN /\ CallOrder(calls) = <<"libusb_get_device_list", "libusb_get_parent",
                                     "libusb_free_device_list">>
             /\ calls[2].arg = objects[last.self].device
        ELSE /\ CallOrder(calls) = <<"libusb_get_device_list", "libusb_get_parent",
                                     "libusb_ref_device", "libusb_free_device_list">>
             /\ calls[2].arg = objects[last.self].device
             /\ calls[3].arg = last.other

\* C13 witness: parent() found a parent and referenced it while the list was
\* held.
C13_Witness ==
    /\ last.op = "parent"
    /\ last.outcome = Returned
    /\ last.other # nullptr
    /\ Len(calls) = 4
    /\ calls[3] = Call("libusb_ref_device", last.other)

\* C14: Bus(), open(), descriptor(), send(), receive(), manufacturer(),
\* product() and serial_number() fail if and only if is_error is true of the
\* int the transport answered: none of them fails on an answer is_error calls
\* no error, none returns normally on one it calls an error.
C14_FailsIffClassifiedError ==
    last.op \in {"Bus", "open", "descriptor", "send", "receive",
                 "manufacturer", "product", "serial_number"} =>
        (last.outcome # Returned <=> is_error(last.status))

\* The field of the descriptor a string accessor reads.
FieldOf(op) ==
    CASE op = "manufacturer" -> "iManufacturer"
      [] op = "product" -> "iProduct"
      [] op = "serial_number" -> "iSerialNumber"

\* C17: manufacturer(), product() and serial_number() return the empty string,
\* with no libusb_get_string_descriptor_ascii call and no failure, exactly
\* when the index for that string in the descriptor the transport reports for
\* the device is 0: they do so whenever that descriptor was fetched
\* successfully and the index is 0, and never for a device whose index is
\* not 0; when the descriptor was fetched successfully and the index is not 0
\* they call libusb_get_string_descriptor_ascii once, with that index, and
\* return the string it wrote or end in a StatusException with its answer.
C17_EmptyStringExactlyForIndexZero ==
    last.op \in {"manufacturer", "product", "serial_number"} =>
        LET obj == objects[devices[last.self].descriptor]
            fetched == obj.descriptor.engaged /\ ~obj.failed
            index == StringIndex(Fetched(obj.device, LIBUSB_SUCCESS), FieldOf(last.op))
            asked == CountFn(calls, "libusb_get_string_descriptor_ascii")
            empty == last.outcome = Returned /\ asked = 0 /\ last.value = <<0>>
        IN
        /\ (fetched /\ index = 0) => empty
        /\ empty => index = 0
        /\ (fetched /\ index # 0) =>
              /\ asked = 1
              /\ CountCalls(calls, "libusb_get_string_descriptor_ascii", index) = 1
              /\ \/ last.outcome = Returned /\ last.value = <<last.status>>
                 \/ last.outcome = StatusException(last.status)

\* C15: whenever libusb_get_device_list reports a negative result, the
\* acquisition fails with a StatusException carrying that result (nested in
\* an Exception by device_descriptors()) and nothing is done with a list:
\* no libusb_get_parent, libusb_ref_device or libusb_free_device_list call;
\* an enumeration that returns has visited as many entries as the transport
\* reported.
C15_NegativeSizeFailsAcquisition ==
    last.op \in {"device_descriptors", "parent"} =>
        /\ last.status < 0 =>
              /\ last.outcome.code = last.status
              /\ \/ last.outcome.kind = "StatusException"
                 \/ last.outcome.cause = "StatusException"
              /\ CallOrder(calls) = <<"libusb_get_device_list">>
        /\ (last.op = "device_descriptors" /\ last.outcome = Returned) =>
              /\ last.status >= 0
              /\ Len(last.value) = last.status

\* C16: right after a DeviceDescriptor is copy-constructed, move-constructed,
\* copy-assigned or move-assigned, its optional _descriptor is empty; and a
\* record that a live object holds from a successful fetch is always the
\* record of the device the object holds now.
C16_CacheBelongsToHeldDevice ==
    /\ last.op \in {"DeviceDescriptor(const&)", "DeviceDescriptor(&&)",
                     "operator=(const&)", "operator=(&&)"} =>
          ~objects[last.self].descriptor.engaged
    /\ \A o \in ObjectIds :
          (objects[o].alive /\ objects[o].descriptor.engaged /\ ~objects[o].failed) =>
              objects[o].descriptor.record = objects[o].device

\* C18: an open() to which libusb_open reports a recognized error code ends
\* in a StatusException with that code, creates no Device, calls libusb_close
\* not at all and leaves every object, every reference count and the
\* sessions as they were; an open() to which it reports success returns a new
\* Device that holds the new handle and a DeviceDescriptor of its own on the
\* same device, for which the reference count went up by one, and leaves the
\* object it was called on as it was; every live Device has its own live
\* DeviceDescriptor, whatever happens to the object it was opened from.
C18_OpenFailsCleanlyOrShares ==
    [][/\ \A d \in DeviceIds :
             devices'[d].alive =>
                 /\ objects'[devices'[d].descriptor].alive
                 /\ objects'[devices'[d].descriptor].shared
                 /\ (devices'[d].handle # nullptr =>
                        refcount'[objects'[devices'[d].descriptor].device] >= 1)
       /\ last'.op = "open" =>
             IF last'.status \in RecognizedErrors
             THEN /\ last'.outcome = StatusException(last'.status)
                  /\ last'.value = <<>>
                  /\ devices' = devices
                  /\ objects' = objects
                  /\ refcount' = refcount
                  /\ closed' = closed
                  /\ sessions' = sessions
                  /\ CountFn(calls', "libusb_close") = 0
             ELSE /\ last'.outcome = Returned
                  /\ Len(last'.value) = 1
                  /\ LET opened == last'.value[1]
                         held == devices'[opened].descriptor
                         device == objects[last'.self].device
                     IN
                     /\ ~devices[opened].alive
                     /\ devices'[opened].alive
                     /\ devices'[opened].handle = sessions'
                     /\ sessions' = sessions + 1
                     /\ \A d \in DeviceIds : devices[d].handle # sessions'
                     /\ held # last'.self
                     /\ ~objects[held].alive
                     /\ objects'[held].device = device
                     /\ objects'[last'.self] = objects[last'.self]
                     /\ refcount' = [refcount EXCEPT ![device] = @ + 1]
                     /\ CountFn(calls', "libusb_close") = 0
      ]_vars

\* C18 witness: the object a Device was opened from has been destroyed, and
\* the Device still holds its handle and the only reference on the device.
C18_Witness ==
    /\ last.op = "~DeviceDescriptor"
    /\ \E d \in DeviceIds :
          /\ devices[d].alive
          /\ devices[d].handle # nullptr
          /\ refcount[objects[devices[d].descriptor].device] = 1
          /\ \A o \in OwnObjects : objects[o].device # objects[devices[d].descriptor].device

\* The device of the DeviceDescriptor that the Device holding handle s keeps.
DeviceOf(devs, objs, s) ==
    { objs[devs[d].descriptor].device : d \in { e \in DeviceIds : devs[e].alive /\ devs[e].handle = s } }

\* C19: a handle that a live Device holds has not been closed, and there is at
\* least one reference on the device it was opened from: the Device that
\* holds a handle keeps a DeviceDescriptor on the device open() was called
\* for, however the handle moves from Device to Device, and that device's
\* reference count is at least 1; in every operation every libusb_close
\* comes before every libusb_unref_device.
C19_ReferenceOutlivesSession ==
    [][/\ \A d \in DeviceIds :
             (devices'[d].alive /\ devices'[d].handle # nullptr) =>
                 /\ closed'[devices'[d].handle] = 0
                 /\ objects'[devices'[d].descriptor].alive
                 /\ objects'[devices'[d].descriptor].device # nullptr
                 /\ refcount'[objects'[devices'[d].descriptor].device] >= 1
       /\ \A s \in Sessions :
             IF s <= sessions
             THEN DeviceOf(devices', objects', s) \subseteq DeviceOf(devices, objects, s)
             ELSE s <= sessions' =>
                    DeviceOf(devices', objects', s) = {objects[last'.self].device}
       /\ \A i, j \in 1 .. Len(calls') :
             (calls'[i].fn = "libusb_close" /\ calls'[j].fn = "libusb_unref_device") => i < j
      ]_vars

\* C19 witness: a Device that held a handle and the last reference on its
\* device was destroyed or assigned to: libusb_close, then libusb_unref_device.
C19_Witness ==
    /\ last.op \in {"~Device", "Device::operator=(&&)"}
    /\ CallOrder(calls) = <<"libusb_close", "libusb_unref_device">>

\* libusb_ref_device calls minus libusb_unref_device calls on h among cs.
Net(cs, h) ==
    CountCalls(cs, "libusb_ref_device", h) - CountCalls(cs, "libusb_unref_device", h)

\* C20: in every DeviceDescriptor operation, self-assignment and copying from
\* a moved-from object included, libusb_ref_device and libusb_unref_device
\* are never called on nullptr; after none of the calls of the operation is
\* the reference count of a device 0 while an object that is alive before and
\* after the operation holds the device throughout; and an object assigned
\* to itself holds the device it held, every reference count as it was.
C20_ReferenceStepsAreSafe ==
    [][last'.op \in {"DeviceDescriptor", "DeviceDescriptor(const&)", "DeviceDescriptor(&&)",
                      "~DeviceDescriptor", "operator=(const&)", "operator=(&&)"} =>
          /\ \A i \in 1 .. Len(calls') :
                calls'[i].fn \in {"libusb_ref_device", "libusb_unref_device"} =>
                    calls'[i].arg # nullptr
          /\ \A h \in Devices :
                (\E o \in ObjectIds :
                    /\ objects[o].alive /\ objects[o].device = h
                    /\ objects'[o].alive /\ objects'[o].device = h) =>
                \A k \in 0 .. Len(calls') :
                    refcount[h] + Net(SubSeq(calls', 1, k), h) >= 1
          /\ (last'.op \in {"operator=(const&)", "operator=(&&)"}
                /\ last'.self = last'.other) =>
                /\ objects'[last'.self].device = objects[last'.self].device
                /\ refcount' = refcount
      ]_vars

====
